---- MODULE Spec2Model ----
(***************************************************************************)
(* Verification model of the document-assistant repository: the text       *)
(* chunker (chunkText) and the keyword relevance selection of the chat     *)
(* component (handleSubmit / findRelevantContent).                         *)
(*                                                                         *)
(* Strings are sequences of one-character strings, so that slicing,        *)
(* splitting, lower-casing and substring search are computed as the code   *)
(* computes them.                                                          *)
(***************************************************************************)
EXTENDS Integers, Sequences, FiniteSets, TLC

VARIABLES
    text,        \* chunkText: the text argument
    chunkSize,   \* chunkText: the chunkSize argument
    overlap,     \* chunkText: the overlap argument
    start,       \* chunkText: let start
    chunks,      \* chunkText: const chunks (the strings pushed so far)
    spans,       \* chunkText: the <<start, end>> of every window pushed
    chunkPc,     \* chunkText: "loop" at the while test, "done" after return
    uploadedFiles,  \* ChatInterface, DocumentUpload: useState<UploadedFile[]>
    messages,       \* ChatInterface: useState<Message[]>
    input,          \* ChatInterface: useState('') of the question field
    isLoading,      \* ChatInterface: useState(false)
    selection,      \* findRelevantContent: the locals of its last call
    documents,      \* the rows of the 'documents' table
    procs,          \* DocumentUpload: the processDocument calls started
    edge,           \* the last request an edge function served
    timers,         \* ChatInterface, DocumentUpload: the setInterval timers
    pending         \* ChatInterface: the chat-completion call awaited

chunkVars == <<text, chunkSize, overlap, start, chunks, spans, chunkPc>>

chatVars == <<uploadedFiles, messages, input, isLoading, selection>>

uploadVars == <<documents, procs>>

edgeVars == <<edge>>

assistVars == <<timers, pending>>

vars == <<chunkVars, chatVars, uploadVars, edgeVars, assistVars>>

----------------------------------------------------------------------------
(* Bounds of the model *)

MaxLen == 6      \* longest generated text
MaxParam == 4    \* largest generated chunkSize / overlap
MaxDocs == 2     \* most files in uploadedFiles
MaxTurns == 1    \* most questions submitted in one run
MaxDropped == 2  \* most files dropped on the upload page in one run

\* The while loop of chunkText has no bound of its own; a run that cannot
\* end is cut after IterCap pushes.  No run that ends is cut.
IterCap == MaxLen + 3

----------------------------------------------------------------------------
(* Generic helpers *)

Min(a, b) == IF a < b THEN a ELSE b
Max(a, b) == IF a > b THEN a ELSE b

\* ceil(a / b) for b > 0 (\div rounds towards minus infinity)
CeilDiv(a, b) == (a + b - 1) \div b

RECURSIVE SeqsUpTo(_, _)
SeqsUpTo(S, n) ==
    IF n = 0 THEN {<<>>}
    ELSE LET shorter == SeqsUpTo(S, n - 1)
         IN shorter \cup {Append(s, c) : s \in shorter, c \in S}

RECURSIVE Concat(_)
Concat(ss) == IF ss = <<>> THEN <<>> ELSE Head(ss) \o Concat(Tail(ss))

----------------------------------------------------------------------------
(* String.prototype.slice(from, to): a negative index counts from the end *)

SliceIndex(i, len) == IF i < 0 THEN Max(len + i, 0) ELSE Min(i, len)

Slice_Inclusive(s, from, to) ==
    LET f == SliceIndex(from, Len(s))
        t == SliceIndex(to + 1, Len(s))
    IN IF f < t THEN SubSeq(s, f + 1, t) ELSE <<>>

Slice(s, from, to) ==
    LET f == SliceIndex(from, Len(s))
        t == SliceIndex(to, Len(s))
    IN IF f < t THEN SubSeq(s, f + 1, t) ELSE <<>>

----------------------------------------------------------------------------
(* The string and array methods the chat component uses *)

UpperLetters ==
    <<"A", "B", "C", "D", "E", "F", "G", "H", "I", "J", "K", "L", "M", "N",
      "O", "P", "Q", "R", "S", "T", "U", "V", "W", "X", "Y", "Z">>

LowerLetters ==
    <<"a", "b", "c", "d", "e", "f", "g", "h", "i", "j", "k", "l", "m", "n",
      "o", "p", "q", "r", "s", "t", "u", "v", "w", "x", "y", "z">>

LowerChar(c) ==
    IF \E k \in 1 .. Len(UpperLetters) : UpperLetters[k] = c
    THEN LowerLetters[CHOOSE k \in 1 .. Len(UpperLetters) : UpperLetters[k] = c]
    ELSE c

\* String.prototype.toLowerCase
ToLowerCase(s) == [i \in 1 .. Len(s) |-> LowerChar(s[i])]

\* String.prototype.includes
Includes(s, k) ==
    \E i \in 0 .. Len(s) - Len(k) : SubSeq(s, i + 1, i + Len(k)) = k

\* String.prototype.substring(0, n)
Substring0(s, n) == SubSeq(s, 1, Min(n, Len(s)))

\* Array.prototype.slice(0, n)
Take_All(xs, n) == xs
Take(xs, n) == SubSeq(xs, 1, Min(n, Len(xs)))

\* Array.prototype.join
RECURSIVE Join(_, _)
Join(xs, sep) ==
    IF xs = <<>> THEN <<>>
    ELSE IF Len(xs) = 1 THEN xs[1]
    ELSE xs[1] \o sep \o Join(Tail(xs), sep)

\* The characters String.prototype.trim strips (those the model's texts use).
Whitespace == {" ", "\t", "\n"}

RECURSIVE TrimStart(_)
TrimStart(s) ==
    IF s # <<>> /\ Head(s) \in Whitespace THEN TrimStart(Tail(s)) ELSE s

RECURSIVE TrimEnd(_)
TrimEnd(s) ==
    IF s # <<>> /\ s[Len(s)] \in Whitespace
    THEN TrimEnd(SubSeq(s, 1, Len(s) - 1))
    ELSE s

\* String.prototype.trim
Trim(s) == TrimEnd(TrimStart(s))

\* s.split(separators): cut at every single character of Seps; between two
\* adjacent separators, before a leading and after a trailing one lies an
\* empty piece.
RECURSIVE SplitAt(_, _)
SplitAt(s, Seps) ==
    IF \A i \in 1 .. Len(s) : s[i] \notin Seps THEN <<s>>
    ELSE LET k == CHOOSE i \in 1 .. Len(s) :
                     s[i] \in Seps /\ \A j \in 1 .. i - 1 : s[j] \notin Seps
         IN <<SubSeq(s, 1, k - 1)>> \o SplitAt(SubSeq(s, k + 1, Len(s)), Seps)

\* s.split(/[...]+/): cut at every maximal run of characters of Seps.
RECURSIVE SplitRuns(_, _)
SplitRuns(s, Seps) ==
    IF \A i \in 1 .. Len(s) : s[i] \notin Seps THEN <<s>>
    ELSE LET k == CHOOSE i \in 1 .. Len(s) :
                     s[i] \in Seps /\ \A j \in 1 .. i - 1 : s[j] \notin Seps
             e == CHOOSE i \in k .. Len(s) :
                     /\ \A j \in k .. i : s[j] \in Seps
                     /\ (i = Len(s) \/ s[i + 1] \notin Seps)
         IN <<SubSeq(s, 1, k - 1)>> \o SplitRuns(SubSeq(s, e + 1, Len(s)), Seps)

\* String.prototype.repeat
Repeat(s, n) == [i \in 1 .. n * Len(s) |-> s[((i - 1) % Len(s)) + 1]]

\* Number to string, for the document count of the summary answer.
DigitChars == <<"0", "1", "2", "3", "4", "5", "6", "7", "8", "9">>

RECURSIVE NumberToString(_)
NumberToString(n) ==
    IF n < 10 THEN <<DigitChars[n + 1]>>
    ELSE NumberToString(n \div 10) \o <<DigitChars[(n % 10) + 1]>>

----------------------------------------------------------------------------
(* chunkText *)

Alphabet == {"a", "b"}

SampleText ==
    <<"T", "h", "e", " ", "s", "k", "y", " ", "i", "s", " ", "b", "l", "u",
      "e", ".", " ", "W", "a", "t", "e", "r", " ", "i", "s", " ", "w", "e",
      "t", ".", " ", "G", "r", "a", "s", "s", " ", "i", "s", " ", "g", "r",
      "e", "e", "n", ".">>

Texts == SeqsUpTo(Alphabet, MaxLen)
Params == (-1) .. MaxParam

\* const end = Math.min(start + chunkSize, text.length)
WindowEnd_NoClamp(s, size, len) == s + size
WindowEnd(s, size, len) == Min(s + size, len)

\* start = end - overlap
NextStart_NoOverlap(end, ov) == end
NextStart_OffByOne(end, ov) == end - ov + 1
NextStart(end, ov) == end - ov

\* if (end === text.length) break
AtEnd(end, len) == end = len

ValidParams == chunkSize > 0 /\ 0 <= overlap /\ overlap < chunkSize

ChunkStart ==
    /\ \/ text \in Texts /\ chunkSize \in Params /\ overlap \in Params
       \/ text = SampleText /\ chunkSize = 20 /\ overlap = 5
    /\ start = 0
    /\ chunks = <<>>
    /\ spans = <<>>
    /\ chunkPc = "loop"

\* One pass through the body of the while loop.
ChunkIter ==
    /\ chunkPc = "loop"
    /\ start < Len(text)
    /\ Len(chunks) < IterCap
    /\ LET end == WindowEnd(start, chunkSize, Len(text))
           chunk == Slice(text, start, end)
       IN /\ chunks' = Append(chunks, chunk)
          /\ spans' = Append(spans, <<start, end>>)
          /\ IF AtEnd(end, Len(text))
             THEN chunkPc' = "done" /\ start' = start
             ELSE chunkPc' = "loop" /\ start' = NextStart(end, overlap)
    /\ UNCHANGED <<text, chunkSize, overlap>>
    /\ UNCHANGED <<chatVars, uploadVars, edgeVars, assistVars>>

\* The while test fails: return chunks.
ChunkReturn ==
    /\ chunkPc = "loop"
    /\ ~(start < Len(text))
    /\ chunkPc' = "done"
    /\ UNCHANGED <<text, chunkSize, overlap, start, chunks, spans>>
    /\ UNCHANGED <<chatVars, uploadVars, edgeVars, assistVars>>

----------------------------------------------------------------------------
(* ChatInterface, the variant that answers from the extracted file content: *)
(* handleSubmit and findRelevantContent.  A Message is modelled by its type, *)
(* content and sources (an absent sources field is the empty sequence); its  *)
(* random id and its timestamp are left out.  An UploadedFile is modelled by *)
(* id, name, status, progress and content (absent content is the empty       *)
(* string: both are falsy in the filter of handleSubmit).                    *)

KeywordMinLen == 3
SentenceCap == 3
FallbackLen == 300
ExplainLen == 500
SummaryLen == 100
SourcePage == 1
\* relevance: 0.95, in hundredths
SourceRelevance == 95

GreetingText ==
    <<"H", "e", "l", "l", "o", "!", " ", "I", "'", "m", " ", "y", "o", "u",
      "r", " ", "A", "I", " ", "a", "s", "s", "i", "s", "t", "a", "n", "t",
      ".", " ", "U", "p", "l", "o", "a", "d", " ", "s", "o", "m", "e", " ",
      "d", "o", "c", "u", "m", "e", "n", "t", "s", " ", "a", "n", "d", " ",
      "I", "'", "l", "l", " ", "h", "e", "l", "p", " ", "y", "o", "u", " ",
      "f", "i", "n", "d", " ", "i", "n", "f", "o", "r", "m", "a", "t", "i",
      "o", "n", " ", "f", "r", "o", "m", " ", "t", "h", "e", "m", ".", " ",
      "W", "h", "a", "t", " ", "w", "o", "u", "l", "d", " ", "y", "o", "u",
      " ", "l", "i", "k", "e", " ", "t", "o", " ", "k", "n", "o", "w", "?">>

NoDocumentsText ==
    <<"I", " ", "d", "o", "n", "'", "t", " ", "h", "a", "v", "e", " ", "a",
      "n", "y", " ", "d", "o", "c", "u", "m", "e", "n", "t", "s", " ", "t",
      "o", " ", "w", "o", "r", "k", " ", "w", "i", "t", "h", " ", "y", "e",
      "t", ".", " ", "P", "l", "e", "a", "s", "e", " ", "u", "p", "l", "o",
      "a", "d", " ", "s", "o", "m", "e", " ", "d", "o", "c", "u", "m", "e",
      "n", "t", "s", " ", "f", "i", "r", "s", "t", ",", " ", "a", "n", "d",
      " ", "I", "'", "l", "l", " ", "b", "e", " ", "a", "b", "l", "e", " ",
      "t", "o", " ", "a", "n", "s", "w", "e", "r", " ", "q", "u", "e", "s",
      "t", "i", "o", "n", "s", " ", "a", "b", "o", "u", "t", " ", "t", "h",
      "e", "i", "r", " ", "c", "o", "n", "t", "e", "n", "t", ".">>

DocumentLabel ==
    <<"D", "o", "c", "u", "m", "e", "n", "t", ":", " ">>

ContentLabel ==
    <<"\n", "C", "o", "n", "t", "e", "n", "t", ":", " ">>

BlockSeparator ==
    <<"\n", "\n", "-", "-", "-", "\n", "\n">>

FoundPrefix ==
    <<"B", "a", "s", "e", "d", " ", "o", "n", " ", "t", "h", "e", " ", "u",
      "p", "l", "o", "a", "d", "e", "d", " ", "d", "o", "c", "u", "m", "e",
      "n", "t", "s", ",", " ", "h", "e", "r", "e", "'", "s", " ", "w", "h",
      "a", "t", " ", "I", " ", "f", "o", "u", "n", "d", ":", "\n", "\n">>

ExplainPrefix ==
    <<"L", "e", "t", " ", "m", "e", " ", "e", "x", "p", "l", "a", "i", "n",
      " ", "b", "a", "s", "e", "d", " ", "o", "n", " ", "t", "h", "e", " ",
      "d", "o", "c", "u", "m", "e", "n", "t", "s", ":", "\n", "\n">>

ExplainSuffix ==
    <<".", ".", ".", "\n", "\n", "T", "h", "i", "s", " ", "i", "s", " ", "t",
      "h", "e", " ", "c", "o", "n", "t", "e", "n", "t", " ", "f", "r", "o",
      "m", " ", "y", "o", "u", "r", " ", "u", "p", "l", "o", "a", "d", "e",
      "d", " ", "d", "o", "c", "u", "m", "e", "n", "t", "s", ".", " ", "Y",
      "o", "u", " ", "c", "a", "n", " ", "a", "s", "k", " ", "m", "e", " ",
      "s", "p", "e", "c", "i", "f", "i", "c", " ", "q", "u", "e", "s", "t",
      "i", "o", "n", "s", " ", "a", "b", "o", "u", "t", " ", "a", "n", "y",
      " ", "p", "a", "r", "t", " ", "o", "f", " ", "t", "h", "i", "s", " ",
      "c", "o", "n", "t", "e", "n", "t", ".">>

SummaryHead ==
    <<"I", " ", "h", "a", "v", "e", " ">>

SummaryCount ==
    <<" ", "d", "o", "c", "u", "m", "e", "n", "t", "(", "s", ")", " ", "a",
      "v", "a", "i", "l", "a", "b", "l", "e", ":", "\n", "\n">>

SummaryTail ==
    <<"\n", "\n", "A", "s", "k", " ", "m", "e", " ", "s", "p", "e", "c", "i",
      "f", "i", "c", " ", "q", "u", "e", "s", "t", "i", "o", "n", "s", " ",
      "a", "b", "o", "u", "t", " ", "a", "n", "y", " ", "o", "f", " ", "t",
      "h", "e", "s", "e", " ", "d", "o", "c", "u", "m", "e", "n", "t", "s",
      " ", "a", "n", "d", " ", "I", "'", "l", "l", " ", "p", "r", "o", "v",
      "i", "d", "e", " ", "d", "e", "t", "a", "i", "l", "e", "d", " ", "a",
      "n", "s", "w", "e", "r", "s", " ", "b", "a", "s", "e", "d", " ", "o",
      "n", " ", "t", "h", "e", "i", "r", " ", "c", "o", "n", "t", "e", "n",
      "t", ".">>

Ellipsis ==
    <<".", ".", ".">>

WhatWord ==
    <<"w", "h", "a", "t">>

TellMeWords ==
    <<"t", "e", "l", "l", " ", "m", "e">>

HowWord ==
    <<"h", "o", "w">>

ExplainWord ==
    <<"e", "x", "p", "l", "a", "i", "n">>

Greeting == [type |-> "assistant", content |-> GreetingText, sources |-> <<>>]

\* uploadedFiles.filter(f => f.status === 'completed' && f.content)
IsUsable(f) == f.status = "completed" /\ f.content # <<>>
CompletedFiles(files) == SelectSeq(files, IsUsable)

\* `Document: ${file.name}\nContent: ${file.content}`
DocumentBlock(f) == DocumentLabel \o f.name \o ContentLabel \o f.content

\* completedFiles.map(...).join('\n\n---\n\n')
DocumentContext(completed) ==
    Join([i \in 1 .. Len(completed) |-> DocumentBlock(completed[i])],
         BlockSeparator)

\* question.toLowerCase().split(' ').filter(word => word.length > 3)
IsKeyword(word) == Len(word) > KeywordMinLen
Keywords(question) == SelectSeq(SplitAt(ToLowerCase(question), {" "}), IsKeyword)

\* documentContext.split(/[.!?]+/)
Sentences(documentContext) == SplitRuns(documentContext, {".", "!", "?"})

\* keywords.some(keyword => sentence.toLowerCase().includes(keyword))
MatchesSome(sentence, keywords) ==
    \E k \in 1 .. Len(keywords) : Includes(ToLowerCase(sentence), keywords[k])

\* sentences.filter(sentence => keywords.some(...))
RelevantSentences(question, documentContext) ==
    LET keywords == Keywords(question)
        Relevant(sentence) == MatchesSome(sentence, keywords)
    IN SelectSeq(Sentences(documentContext), Relevant)

\* The pieces of the context findRelevantContent returns: the first
\* SentenceCap relevant sentences, or else the head of the context.
SelectedFragments(question, documentContext) ==
    LET relevant == RelevantSentences(question, documentContext)
    IN IF Len(relevant) > 0
       THEN Take(relevant, SentenceCap)
       ELSE <<Substring0(documentContext, FallbackLen)>>

FindRelevantContent(question, documentContext) ==
    LET relevant == RelevantSentences(question, documentContext)
    IN IF Len(relevant) > 0
       THEN Join(Take(relevant, SentenceCap), <<".", " ">>) \o <<".">>
       ELSE Substring0(documentContext, FallbackLen) \o Ellipsis

AsksWhat(question) ==
    \/ Includes(ToLowerCase(question), WhatWord)
    \/ Includes(ToLowerCase(question), TellMeWords)

AsksHow(question) ==
    \/ Includes(ToLowerCase(question), HowWord)
    \/ Includes(ToLowerCase(question), ExplainWord)

\* `${file.name}: ${file.content.substring(0, 100)}...`
SummaryLine(f) == f.name \o <<":", " ">> \o Substring0(f.content, SummaryLen) \o Ellipsis

\* The response handleSubmit builds in its try block.
Response(question, completed) ==
    IF Len(completed) = 0 THEN NoDocumentsText
    ELSE LET documentContext == DocumentContext(completed)
         IN IF AsksWhat(question)
            THEN FoundPrefix \o FindRelevantContent(question, documentContext)
            ELSE IF AsksHow(question)
            THEN ExplainPrefix \o Substring0(documentContext, ExplainLen)
                 \o ExplainSuffix
            ELSE SummaryHead \o NumberToString(Len(completed)) \o SummaryCount
                 \o Join([i \in 1 .. Len(completed) |-> SummaryLine(completed[i])],
                         <<"\n", "\n">>)
                 \o SummaryTail

\* sources: completedFiles.map(file => ({document, page: 1, relevance: 0.95}))
Sources(completed) ==
    [i \in 1 .. Len(completed) |->
        [document |-> completed[i].name,
         page |-> SourcePage,
         relevance |-> SourceRelevance]]

NoSelection ==
    [called |-> FALSE, question |-> <<>>, docs |-> <<>>, keywords |-> <<>>,
     sentences |-> <<>>, fragments |-> <<>>, fallback |-> FALSE]

\* The arguments and locals of the findRelevantContent call handleSubmit
\* makes for this question, if it makes one.
SelectionOf(question, completed) ==
    IF Len(completed) > 0 /\ AsksWhat(question)
    THEN LET documentContext == DocumentContext(completed)
         IN [called |-> TRUE,
             question |-> question,
             docs |-> completed,
             keywords |-> Keywords(question),
             sentences |-> Sentences(documentContext),
             fragments |-> SelectedFragments(question, documentContext),
             fallback |-> Len(RelevantSentences(question, documentContext)) = 0]
    ELSE NoSelection

\* The files and questions the model draws from.

CatsName ==
    <<"c", "a", "t", "s", ".", "t", "x", "t">>

CatsText ==
    <<"C", "a", "t", "s", " ", "s", "l", "e", "e", "p", ".", " ", "D", "o",
      "g", "s", " ", "b", "a", "r", "k", "!", " ", "C", "a", "t", "s", " ",
      "l", "i", "k", "e", " ", "f", "i", "s", "h", ".", " ", "F", "i", "s",
      "h", " ", "s", "w", "i", "m", ".">>

GrassName ==
    <<"g", "r", "a", "s", "s", ".", "t", "x", "t">>

GrassText ==
    <<"G", "r", "a", "s", "s", " ", "i", "s", " ", "g", "r", "e", "e", "n",
      ".">>

EmptyName ==
    <<"e", "m", "p", "t", "y", ".", "t", "x", "t">>

PendingName ==
    <<"p", "e", "n", "d", "i", "n", "g", ".", "t", "x", "t">>

LongName ==
    <<"l", "o", "n", "g", ".", "t", "x", "t">>

LongUnit ==
    <<"l", "o", "r", "e", "m", " ", "i", "p", "s", "u", "m", " ">>

AskCatsFish ==
    <<"w", "h", "a", "t", " ", "c", "a", "t", "s", " ", "f", "i", "s", "h">>

AskTabbed ==
    <<"W", "h", "a", "t", "\t", "c", "o", "l", "o", "r", " ", "g", "r", "a",
      "s", "s">>

AskTellMe ==
    <<"t", "e", "l", "l", " ", "m", "e", " ", "x", "y", "z">>

AskDoubleSpace ==
    <<"w", "h", "a", "t", " ", " ", "i", "s", " ", "i", "t">>

AskDocument ==
    <<"W", "h", "a", "t", " ", "d", "o", "c", "u", "m", "e", "n", "t", "?">>

AskHow ==
    <<"h", "o", "w", " ", "d", "o", "g", "s">>

AskPlain ==
    <<"c", "a", "t", "s">>

AskBlank ==
    <<" ", "\t", " ">>

AskLorem ==
    <<"w", "h", "a", "t", " ", "l", "o", "r", "e", "m">>

LongText == Repeat(LongUnit, 30)

HugeName ==
    <<"h", "u", "g", "e", ".", "t", "x", "t">>

\* A text of 2040 characters without a sentence end.
HugeText == Repeat(LongUnit, 170)

FilePool ==
    { [id |-> "f1", name |-> CatsName, status |-> "completed", progress |-> 100,
       content |-> CatsText],
      [id |-> "f2", name |-> GrassName, status |-> "completed", progress |-> 100,
       content |-> GrassText],
      [id |-> "f3", name |-> EmptyName, status |-> "completed", progress |-> 100,
       content |-> <<>>],
      [id |-> "f4", name |-> PendingName, status |-> "processing", progress |-> 50,
       content |-> <<>>],
      [id |-> "f5", name |-> LongName, status |-> "completed", progress |-> 100,
       content |-> LongText] }

RECURSIVE FileListsUpTo(_)
FileListsUpTo(n) ==
    IF n = 0 THEN {<<>>}
    ELSE LET shorter == FileListsUpTo(n - 1)
         IN shorter \cup
            {Append(fs, f) : fs \in shorter,
                             f \in FilePool}

HasDistinctIds(fs) == \A i, j \in 1 .. Len(fs) : fs[i].id = fs[j].id => i = j

FileLists == {fs \in FileListsUpTo(MaxDocs) : HasDistinctIds(fs)}

Questions ==
    {AskCatsFish, AskTabbed, AskTellMe, AskDoubleSpace, AskDocument, AskHow,
     AskPlain, AskBlank, AskLorem}

\* The files of the runs that look at the size of an answer.
BudgetPool ==
    { [id |-> "f1", name |-> CatsName, status |-> "completed", progress |-> 100,
       content |-> CatsText],
      [id |-> "f6", name |-> HugeName, status |-> "completed", progress |-> 100,
       content |-> HugeText] }

BudgetLists ==
    {fs \in SeqsUpTo(BudgetPool, MaxDocs) : HasDistinctIds(fs)}

ChunkIdle ==
    /\ text = <<>>
    /\ chunkSize = 1000
    /\ overlap = 200
    /\ start = 0
    /\ chunks = <<>>
    /\ spans = <<>>
    /\ chunkPc = "done"

\* The chat component is not mounted (the upload page and the edge function
\* call chunkText without it).
ChatIdle ==
    /\ uploadedFiles = <<>>
    /\ messages = <<>>
    /\ input = <<>>
    /\ isLoading = FALSE
    /\ selection = NoSelection

ChatInit ==
    /\ uploadedFiles \in FileLists
    /\ messages = <<Greeting>>
    /\ input = <<>>
    /\ isLoading = FALSE
    /\ selection = NoSelection

BudgetChatInit ==
    /\ uploadedFiles \in BudgetLists
    /\ messages = <<Greeting>>
    /\ input = <<>>
    /\ isLoading = FALSE
    /\ selection = NoSelection

\* onChange of the question field: setInput(e.target.value)
SetInputOf(questions) ==
    /\ ~isLoading
    /\ \E q \in questions : input' = q
    /\ UNCHANGED <<uploadedFiles, messages, isLoading, selection>>
    /\ UNCHANGED <<chunkVars, uploadVars, edgeVars, assistVars>>

SetInput == SetInputOf(Questions)

\* handleSubmit, from its guard to setIsLoading(false).  It awaits nothing,
\* so it runs as one step; nothing in its try block throws.
HandleSubmit ==
    /\ ~(Trim(input) = <<>> \/ isLoading)
    /\ Len(messages) < 1 + 2 * MaxTurns
    /\ LET completedFiles == CompletedFiles(uploadedFiles)
           userMessage == [type |-> "user", content |-> input, sources |-> <<>>]
           assistantMessage ==
               [type |-> "assistant",
                content |-> Response(input, completedFiles),
                sources |-> Sources(completedFiles)]
       IN /\ messages' = messages \o <<userMessage, assistantMessage>>
          /\ selection' = SelectionOf(input, completedFiles)
    /\ input' = <<>>
    /\ isLoading' = FALSE
    /\ UNCHANGED uploadedFiles
    /\ UNCHANGED <<chunkVars, uploadVars, edgeVars, assistVars>>

----------------------------------------------------------------------------
(* The edge functions: chat-completion (supabase/functions/chat-completion   *)
(* and the copy of it in unnamed/part_003) and process-document.  A request  *)
(* is served in one step; edge holds the request, what the function sent to  *)
(* the language model, and the response it returned.                         *)

SystemPrompt ==
    <<"Y", "o", "u", " ", "a", "r", "e", " ", "a", " ", "h", "e", "l", "p",
      "f", "u", "l", " ", "A", "I", " ", "a", "s", "s", "i", "s", "t", "a",
      "n", "t", " ", "t", "h", "a", "t", " ", "a", "n", "s", "w", "e", "r",
      "s", " ", "q", "u", "e", "s", "t", "i", "o", "n", "s", " ", "b", "a",
      "s", "e", "d", " ", "o", "n", " ", "u", "p", "l", "o", "a", "d", "e",
      "d", " ", "d", "o", "c", "u", "m", "e", "n", "t", "s", ".", " ", "\n",
      " ", " ", " ", " ", "\n", " ", " ", " ", " ", "I", "M", "P", "O", "R",
      "T", "A", "N", "T", " ", "I", "N", "S", "T", "R", "U", "C", "T", "I",
      "O", "N", "S", ":", "\n", " ", " ", " ", " ", "1", ".", " ", "A", "L",
      "W", "A", "Y", "S", " ", "u", "s", "e", " ", "t", "h", "e", " ", "p",
      "r", "o", "v", "i", "d", "e", "d", " ", "d", "o", "c", "u", "m", "e",
      "n", "t", " ", "c", "o", "n", "t", "e", "x", "t", " ", "t", "o", " ",
      "a", "n", "s", "w", "e", "r", " ", "q", "u", "e", "s", "t", "i", "o",
      "n", "s", "\n", " ", " ", " ", " ", "2", ".", " ", "I", "f", " ", "t",
      "h", "e", " ", "u", "s", "e", "r", " ", "a", "s", "k", "s", " ", "a",
      "b", "o", "u", "t", " ", "a", " ", "d", "o", "c", "u", "m", "e", "n",
      "t", ",", " ", "a", "n", "a", "l", "y", "z", "e", " ", "t", "h", "e",
      " ", "c", "o", "n", "t", "e", "n", "t", " ", "t", "h", "o", "r", "o",
      "u", "g", "h", "l", "y", "\n", " ", " ", " ", " ", "3", ".", " ", "P",
      "r", "o", "v", "i", "d", "e", " ", "s", "p", "e", "c", "i", "f", "i",
      "c", ",", " ", "d", "e", "t", "a", "i", "l", "e", "d", " ", "a", "n",
      "s", "w", "e", "r", "s", " ", "b", "a", "s", "e", "d", " ", "o", "n",
      " ", "t", "h", "e", " ", "d", "o", "c", "u", "m", "e", "n", "t", " ",
      "c", "o", "n", "t", "e", "n", "t", "\n", " ", " ", " ", " ", "4", ".",
      " ", "Q", "u", "o", "t", "e", " ", "r", "e", "l", "e", "v", "a", "n",
      "t", " ", "s", "e", "c", "t", "i", "o", "n", "s", " ", "f", "r", "o",
      "m", " ", "t", "h", "e", " ", "d", "o", "c", "u", "m", "e", "n", "t",
      "s", " ", "w", "h", "e", "n", " ", "a", "p", "p", "r", "o", "p", "r",
      "i", "a", "t", "e", "\n", " ", " ", " ", " ", "5", ".", " ", "I", "f",
      " ", "y", "o", "u", " ", "c", "a", "n", "n", "o", "t", " ", "f", "i",
      "n", "d", " ", "r", "e", "l", "e", "v", "a", "n", "t", " ", "i", "n",
      "f", "o", "r", "m", "a", "t", "i", "o", "n", " ", "i", "n", " ", "t",
      "h", "e", " ", "p", "r", "o", "v", "i", "d", "e", "d", " ", "c", "o",
      "n", "t", "e", "x", "t", ",", " ", "s", "a", "y", " ", "s", "o", " ",
      "c", "l", "e", "a", "r", "l", "y", "\n", " ", " ", " ", " ", "6", ".",
      " ", "B", "e", " ", "h", "e", "l", "p", "f", "u", "l", " ", "a", "n",
      "d", " ", "i", "n", "f", "o", "r", "m", "a", "t", "i", "v", "e", ",",
      " ", "b", "u", "t", " ", "a", "l", "w", "a", "y", "s", " ", "b", "a",
      "s", "e", " ", "y", "o", "u", "r", " ", "r", "e", "s", "p", "o", "n",
      "s", "e", "s", " ", "o", "n", " ", "t", "h", "e", " ", "d", "o", "c",
      "u", "m", "e", "n", "t", " ", "c", "o", "n", "t", "e", "n", "t", "\n",
      " ", " ", " ", " ", "\n", " ", " ", " ", " ", "Y", "o", "u", "r", " ",
      "r", "e", "s", "p", "o", "n", "s", "e", "s", " ", "s", "h", "o", "u",
      "l", "d", " ", "d", "e", "m", "o", "n", "s", "t", "r", "a", "t", "e",
      " ", "t", "h", "a", "t", " ", "y", "o", "u", " ", "h", "a", "v", "e",
      " ", "r", "e", "a", "d", " ", "a", "n", "d", " ", "u", "n", "d", "e",
      "r", "s", "t", "o", "o", "d", " ", "t", "h", "e", " ", "u", "p", "l",
      "o", "a", "d", "e", "d", " ", "d", "o", "c", "u", "m", "e", "n", "t",
      "s", ".">>

ContextHeading ==
    <<"\n", "\n", "D", "O", "C", "U", "M", "E", "N", "T", " ", "C", "O", "N",
      "T", "E", "X", "T", " ", "(", "U", "s", "e", " ", "t", "h", "i", "s",
      " ", "i", "n", "f", "o", "r", "m", "a", "t", "i", "o", "n", " ", "t",
      "o", " ", "a", "n", "s", "w", "e", "r", " ", "q", "u", "e", "s", "t",
      "i", "o", "n", "s", ")", ":", "\n">>

NoDocumentsNote ==
    <<"\n", "\n", "N", "o", " ", "d", "o", "c", "u", "m", "e", "n", "t", "s",
      " ", "h", "a", "v", "e", " ", "b", "e", "e", "n", " ", "u", "p", "l",
      "o", "a", "d", "e", "d", " ", "y", "e", "t", ".", " ", "P", "l", "e",
      "a", "s", "e", " ", "a", "s", "k", " ", "t", "h", "e", " ", "u", "s",
      "e", "r", " ", "t", "o", " ", "u", "p", "l", "o", "a", "d", " ", "d",
      "o", "c", "u", "m", "e", "n", "t", "s", " ", "f", "i", "r", "s", "t",
      ".">>

QuotaReply ==
    <<"I", " ", "a", "p", "o", "l", "o", "g", "i", "z", "e", ",", " ", "b",
      "u", "t", " ", "i", "t", " ", "s", "e", "e", "m", "s", " ", "y", "o",
      "u", "r", " ", "G", "e", "m", "i", "n", "i", " ", "A", "P", "I", " ",
      "a", "c", "c", "o", "u", "n", "t", " ", "h", "a", "s", " ", "e", "x",
      "c", "e", "e", "d", "e", "d", " ", "i", "t", "s", " ", "q", "u", "o",
      "t", "a", ".", " ", "P", "l", "e", "a", "s", "e", " ", "c", "h", "e",
      "c", "k", " ", "y", "o", "u", "r", " ", "G", "o", "o", "g", "l", "e",
      " ", "A", "I", " ", "S", "t", "u", "d", "i", "o", " ", "b", "i", "l",
      "l", "i", "n", "g", " ", "d", "a", "s", "h", "b", "o", "a", "r", "d",
      " ", "a", "n", "d", " ", "i", "n", "c", "r", "e", "a", "s", "e", " ",
      "y", "o", "u", "r", " ", "q", "u", "o", "t", "a", " ", "t", "o", " ",
      "c", "o", "n", "t", "i", "n", "u", "e", " ", "u", "s", "i", "n", "g",
      " ", "t", "h", "e", " ", "A", "I", " ", "f", "e", "a", "t", "u", "r",
      "e", "s", ".", " ", "F", "o", "r", " ", "n", "o", "w", ",", " ", "I",
      " ", "c", "a", "n", " ", "s", "t", "i", "l", "l", " ", "h", "e", "l",
      "p", " ", "y", "o", "u", " ", "w", "i", "t", "h", " ", "g", "e", "n",
      "e", "r", "a", "l", " ", "q", "u", "e", "s", "t", "i", "o", "n", "s",
      " ", "a", "b", "o", "u", "t", " ", "d", "o", "c", "u", "m", "e", "n",
      "t", " ", "m", "a", "n", "a", "g", "e", "m", "e", "n", "t", " ", "a",
      "n", "d", " ", "R", "A", "G", " ", "s", "y", "s", "t", "e", "m", "s",
      ".">>

SystemPromptPart003 ==
    <<"Y", "o", "u", " ", "a", "r", "e", " ", "a", " ", "h", "e", "l", "p",
      "f", "u", "l", " ", "A", "I", " ", "a", "s", "s", "i", "s", "t", "a",
      "n", "t", " ", "t", "h", "a", "t", " ", "a", "n", "s", "w", "e", "r",
      "s", " ", "q", "u", "e", "s", "t", "i", "o", "n", "s", " ", "b", "a",
      "s", "e", "d", " ", "o", "n", " ", "u", "p", "l", "o", "a", "d", "e",
      "d", " ", "d", "o", "c", "u", "m", "e", "n", "t", "s", ".", " ", "\n",
      " ", " ", " ", " ", "Y", "o", "u", " ", "s", "h", "o", "u", "l", "d",
      " ", "p", "r", "o", "v", "i", "d", "e", " ", "a", "c", "c", "u", "r",
      "a", "t", "e", ",", " ", "h", "e", "l", "p", "f", "u", "l", " ", "r",
      "e", "s", "p", "o", "n", "s", "e", "s", " ", "b", "a", "s", "e", "d",
      " ", "o", "n", " ", "t", "h", "e", " ", "c", "o", "n", "t", "e", "x",
      "t", " ", "p", "r", "o", "v", "i", "d", "e", "d", " ", "f", "r", "o",
      "m", " ", "t", "h", "e", " ", "u", "s", "e", "r", "'", "s", " ", "d",
      "o", "c", "u", "m", "e", "n", "t", "s", ".", "\n", " ", " ", " ", " ",
      "\n", " ", " ", " ", " ", "I", "f", " ", "y", "o", "u", " ", "r", "e",
      "f", "e", "r", "e", "n", "c", "e", " ", "i", "n", "f", "o", "r", "m",
      "a", "t", "i", "o", "n", " ", "f", "r", "o", "m", " ", "t", "h", "e",
      " ", "d", "o", "c", "u", "m", "e", "n", "t", "s", ",", " ", "b", "e",
      " ", "s", "p", "e", "c", "i", "f", "i", "c", " ", "a", "b", "o", "u",
      "t", " ", "w", "h", "i", "c", "h", " ", "d", "o", "c", "u", "m", "e",
      "n", "t", " ", "o", "r", " ", "s", "e", "c", "t", "i", "o", "n", " ",
      "y", "o", "u", "'", "r", "e", " ", "c", "i", "t", "i", "n", "g", ".",
      "\n", " ", " ", " ", " ", "I", "f", " ", "y", "o", "u", " ", "c", "a",
      "n", "n", "o", "t", " ", "f", "i", "n", "d", " ", "r", "e", "l", "e",
      "v", "a", "n", "t", " ", "i", "n", "f", "o", "r", "m", "a", "t", "i",
      "o", "n", " ", "i", "n", " ", "t", "h", "e", " ", "p", "r", "o", "v",
      "i", "d", "e", "d", " ", "c", "o", "n", "t", "e", "x", "t", ",", " ",
      "s", "a", "y", " ", "s", "o", " ", "c", "l", "e", "a", "r", "l", "y",
      ".">>

ContextHeadingPart003 ==
    <<"\n", "\n", "H", "e", "r", "e", " ", "i", "s", " ", "t", "h", "e", " ",
      "r", "e", "l", "e", "v", "a", "n", "t", " ", "c", "o", "n", "t", "e",
      "x", "t", " ", "f", "r", "o", "m", " ", "t", "h", "e", " ", "u", "s",
      "e", "r", "'", "s", " ", "d", "o", "c", "u", "m", "e", "n", "t", "s",
      ":", "\n">>

\* A destructured field that may be missing from the request body.
Absent == [present |-> FALSE, items |-> <<>>]
Given(items) == [present |-> TRUE, items |-> items]

\* documentContext && documentContext.length > 0
HasContext(documentContext) ==
    documentContext.present /\ Len(documentContext.items) > 0

\* chat-completion: the system prompt with the document context
SystemContent(documentContext) ==
    IF HasContext(documentContext)
    THEN SystemPrompt \o ContextHeading
         \o Join(documentContext.items, BlockSeparator)
    ELSE SystemPrompt \o NoDocumentsNote

\* part_003: the system prompt with the document context
SystemContentPart003(documentContext) ==
    IF HasContext(documentContext)
    THEN SystemPromptPart003 \o ContextHeadingPart003
         \o Join(documentContext.items, <<"\n", "\n">>)
    ELSE SystemPromptPart003

\* messages.map(...) with the system instruction unshifted in front
GeminiMessages(msgs, systemContent) ==
    <<[role |-> "user", text |-> systemContent]>> \o
    [i \in 1 .. Len(msgs) |->
        [role |-> IF msgs[i].role = "assistant" THEN "model" ELSE "user",
         text |-> msgs[i].content]]

\* What the Gemini API answers: a candidate text, no candidate, the quota
\* error, or another error.
GeminiOutcomes ==
    { [ok |-> TRUE, code |-> "", candidates |-> <<GrassText>>],
      [ok |-> TRUE, code |-> "", candidates |-> <<>>],
      [ok |-> FALSE, code |-> "RESOURCE_EXHAUSTED", candidates |-> <<>>],
      [ok |-> FALSE, code |-> "INTERNAL", candidates |-> <<>>] }

\* The handler did not get as far as the fetch.
NoFetch == [ok |-> FALSE, code |-> "none", candidates |-> <<>>]

\* The response of the chat handler after the fetch.
ChatReply_NoQuota(upstream) ==
    IF ~upstream.ok
    THEN [status |-> 500,
          body |-> [response |-> <<>>, isQuotaError |-> FALSE,
                    error |-> "Gemini API error"]]
    ELSE IF upstream.candidates = <<>>
         THEN [status |-> 500,
               body |-> [response |-> <<>>, isQuotaError |-> FALSE,
                         error |-> "TypeError"]]
         ELSE [status |-> 200,
               body |-> [response |-> upstream.candidates[1],
                         isQuotaError |-> FALSE, error |-> ""]]
ChatReply(upstream) ==
    IF ~upstream.ok
    THEN IF upstream.code = "RESOURCE_EXHAUSTED"
         THEN [status |-> 200,
               body |-> [response |-> QuotaReply, isQuotaError |-> TRUE,
                         error |-> ""]]
         ELSE [status |-> 500,
               body |-> [response |-> <<>>, isQuotaError |-> FALSE,
                         error |-> "Gemini API error"]]
    ELSE IF upstream.candidates = <<>>
         THEN [status |-> 500,
               body |-> [response |-> <<>>, isQuotaError |-> FALSE,
                         error |-> "TypeError"]]
         ELSE [status |-> 200,
               body |-> [response |-> upstream.candidates[1],
                         isQuotaError |-> FALSE, error |-> ""]]

\* The serve handler of a chat function, given how it builds its prompt.
ServeChat(fn, keyConfigured, request, systemContent, upstream) ==
    IF ~keyConfigured
    THEN [fn |-> fn, keyConfigured |-> FALSE, request |-> request,
          contents |-> <<>>, upstream |-> NoFetch, status |-> 500,
          body |-> [response |-> <<>>, isQuotaError |-> FALSE,
                    error |-> "Gemini API key not configured"]]
    ELSE LET reply == ChatReply(upstream)
         IN [fn |-> fn, keyConfigured |-> TRUE, request |-> request,
             contents |-> GeminiMessages(request.messages, systemContent),
             upstream |-> upstream,
             status |-> reply.status, body |-> reply.body]

\* The requests the model sends to the chat functions: the context is a
\* list of `Document: ${f.name}` lines as handleSubmit builds it.
ContextLines == {DocumentLabel \o CatsName, DocumentLabel \o GrassName}

DocumentContexts == {Absent} \cup {Given(c) : c \in SeqsUpTo(ContextLines, MaxDocs)}

RequestMessages ==
    { <<[role |-> "user", content |-> AskPlain]>>,
      <<[role |-> "assistant", content |-> Ellipsis],
        [role |-> "user", content |-> AskHow]>> }

ChatRequests ==
    [messages : RequestMessages, documentContext : DocumentContexts]

\* No processDocument call was started and the table is empty.
UploadIdle ==
    /\ documents = <<>>
    /\ procs = <<>>

EdgeIdle ==
    edge = [fn |-> "none", keyConfigured |-> FALSE, request |-> <<>>,
            contents |-> <<>>, upstream |-> NoFetch, status |-> 0,
            body |-> <<>>]

\* supabase/functions/chat-completion/index.ts: serve handler
ChatCompletion ==
    /\ \E keyConfigured \in BOOLEAN, request \in ChatRequests,
          upstream \in GeminiOutcomes :
          edge' = ServeChat("chat-completion", keyConfigured, request,
                            SystemContent(request.documentContext), upstream)
    /\ UNCHANGED <<chunkVars, chatVars, uploadVars, assistVars>>

\* unnamed/part_003: serve handler
ChatCompletionPart003 ==
    /\ \E keyConfigured \in BOOLEAN, request \in ChatRequests,
          upstream \in GeminiOutcomes :
          edge' = ServeChat("part_003", keyConfigured, request,
                            SystemContentPart003(request.documentContext),
                            upstream)
    /\ UNCHANGED <<chunkVars, chatVars, uploadVars, assistVars>>

\* chunkText(text, chunkSize = 1000, overlap = 200): the defaults
DefaultChunkSize == 1000
DefaultOverlap == 200

\* chunkText run to its return, for parameters with which it returns.
RECURSIVE ChunkTextFrom(_, _, _, _)
ChunkTextFrom(t, st, size, ov) ==
    IF ~(st < Len(t)) THEN <<>>
    ELSE LET end == WindowEnd(st, size, Len(t))
         IN <<Slice(t, st, end)>> \o
            (IF AtEnd(end, Len(t)) THEN <<>>
             ELSE ChunkTextFrom(t, NextStart(end, ov), size, ov))

ChunkText(t, size, ov) == ChunkTextFrom(t, 0, size, ov)

\* process-document: the serve handler.  A field missing from the body and
\* an empty string fail the test !text || !fileName alike; the embedding
\* vector itself is left out of the response.
ServeProcessDocument(keyConfigured, request, embeddingOk) ==
    LET Failed(message) ==
            [fn |-> "process-document", keyConfigured |-> keyConfigured,
             request |-> request, contents |-> <<>>, status |-> 500,
             body |-> [success |-> FALSE, fileName |-> <<>>, chunks |-> 0,
                       error |-> message]]
    IN IF ~keyConfigured THEN Failed("OpenAI API key not configured")
       ELSE IF request.text = <<>> \/ request.fileName = <<>>
       THEN Failed("Text content and filename are required")
       ELSE IF ~embeddingOk THEN Failed("OpenAI Embedding API error")
       ELSE [fn |-> "process-document", keyConfigured |-> keyConfigured,
             request |-> request, contents |-> <<request.text>>,
             status |-> 200,
             body |-> [success |-> TRUE, fileName |-> request.fileName,
                       chunks |-> Len(ChunkText(request.text, DefaultChunkSize,
                                                DefaultOverlap)),
                       error |-> ""]]

ProcessRequests ==
    [text : {<<>>, CatsText, HugeText}, fileName : {<<>>, CatsName}]

\* supabase/functions/process-document/index.ts: serve handler
ProcessDocumentRequest ==
    /\ \E keyConfigured \in BOOLEAN, request \in ProcessRequests,
          embeddingOk \in BOOLEAN :
          edge' = ServeProcessDocument(keyConfigured, request, embeddingOk)
    /\ UNCHANGED <<chunkVars, chatVars, uploadVars, assistVars>>

----------------------------------------------------------------------------
(* DocumentUpload, the variant that extracts the text and stores it in the   *)
(* 'documents' table: onDrop, processDocument, removeFile.  A processDocument *)
(* call runs up to its first await inside onDrop and then takes two more     *)
(* steps, one when extractTextFromFile resolves and one when the insert      *)
(* resolves.  An id is modelled by a number: equal numbers are equal strings *)
(* out of Math.random().toString(36).substring(7).                           *)

\* useDropzone({ maxFiles: 20 })
MaxFiles == 20

ReadErrorMessage ==
    <<"N", "o", "t", "R", "e", "a", "d", "a", "b", "l", "e", "E", "r", "r",
      "o", "r">>

ErrorProcessing ==
    <<"E", "r", "r", "o", "r", " ", "p", "r", "o", "c", "e", "s", "s", "i",
      "n", "g", " ">>

\* extractTextFromFile for a text/plain file: file.text(), or the message of
\* the catch block when reading fails (it never throws).
ExtractTextFromFile(file, readOk) ==
    IF readOk THEN file.text
    ELSE ErrorProcessing \o file.name \o <<":", " ">> \o ReadErrorMessage

\* newFile of onDrop
NewFile(file, fileId) ==
    [id |-> fileId, name |-> file.name, size |-> Len(file.text),
     status |-> "uploading", progress |-> 0, content |-> <<>>,
     chunks |-> <<>>]

\* prev.map(f => f.id === fileId ? { ...f, status: 'processing', progress: 50 } : f)
MarkProcessing(files, fileId) ==
    [j \in 1 .. Len(files) |->
        IF files[j].id = fileId
        THEN [files[j] EXCEPT !.status = "processing", !.progress = 50]
        ELSE files[j]]

\* prev.map(f => f.id === fileId ? { ...f, status: 'completed', ... } : f)
MarkCompleted_Upsert(files, fileId, content, chunked) ==
    IF \E j \in 1 .. Len(files) : files[j].id = fileId
    THEN [j \in 1 .. Len(files) |->
             IF files[j].id = fileId
             THEN [files[j] EXCEPT !.status = "completed", !.progress = 100,
                                   !.content = content, !.chunks = chunked]
             ELSE files[j]]
    ELSE Append(files, [id |-> fileId, name |-> <<>>, size |-> 0,
                        status |-> "completed", progress |-> 100,
                        content |-> content, chunks |-> chunked])
MarkCompleted(files, fileId, content, chunked) ==
    [j \in 1 .. Len(files) |->
        IF files[j].id = fileId
        THEN [files[j] EXCEPT !.status = "completed", !.progress = 100,
                              !.content = content, !.chunks = chunked]
        ELSE files[j]]

\* prev.map(f => f.id === fileId ? { ...f, status: 'error', progress: 0 } : f)
MarkError(files, fileId) ==
    [j \in 1 .. Len(files) |->
        IF files[j].id = fileId
        THEN [files[j] EXCEPT !.status = "error", !.progress = 0]
        ELSE files[j]]

\* The state updates onDrop queues for acceptedFiles, applied in order: for
\* every file the append of newFile and then, from the start of
\* processDocument, the update to 'processing'.
RECURSIVE AfterDrop(_, _, _)
AfterDrop(files, batch, ids) ==
    IF batch = <<>> THEN files
    ELSE AfterDrop(MarkProcessing(Append(files, NewFile(Head(batch), Head(ids))),
                                  Head(ids)),
                   Tail(batch), Tail(ids))

\* The processDocument calls onDrop starts, each waiting for its text.
StartedCalls(batch, ids) ==
    [i \in 1 .. Len(batch) |->
        [fileId |-> ids[i], file |-> batch[i], pc |-> "extracting",
         content |-> <<>>, chunks |-> <<>>]]

\* The ids drawn so far.
UsedIds == {procs[p].fileId : p \in 1 .. Len(procs)}

MaxUsedId == IF UsedIds = {} THEN 0 ELSE CHOOSE m \in UsedIds : \A u \in UsedIds : u <= m

\* The draws of Math.random the model follows for n files: n values not
\* drawn before; the same with the first equal to a value drawn before; the
\* same with the second equal to the first.
FreshDraw(n) == [i \in 1 .. n |-> MaxUsedId + i]

IdDraws(n) ==
    {FreshDraw(n)}
    \cup {[FreshDraw(n) EXCEPT ![1] = u] : u \in UsedIds}
    \cup (IF n >= 2 THEN {[FreshDraw(n) EXCEPT ![2] = MaxUsedId + 1]} ELSE {})

\* The files the model drops.
CatsFile == [name |-> CatsName, text |-> CatsText]
EmptyFile == [name |-> EmptyName, text |-> <<>>]

DroppedFiles == {CatsFile, EmptyFile}

\* acceptedFiles of one drop: up to MaxDropped files, or MaxFiles files.
SmallBatches == SeqsUpTo(DroppedFiles, MaxDropped) \ {<<>>}

FullBatches == {[i \in 1 .. MaxFiles |-> CatsFile]}

\* onDrop(acceptedFiles), with at most cap files dropped in the run.
OnDropOf(batches, cap) ==
    /\ \E batch \in batches :
          /\ Len(procs) + Len(batch) <= cap
          /\ \E ids \in IdDraws(Len(batch)) :
                /\ uploadedFiles' = AfterDrop(uploadedFiles, batch, ids)
                /\ procs' = procs \o StartedCalls(batch, ids)
    /\ UNCHANGED <<documents, messages, input, isLoading, selection>>
    /\ UNCHANGED <<chunkVars, edgeVars, assistVars>>

OnDrop == OnDropOf(SmallBatches, MaxDropped)

\* A drop of as many files as useDropzone lets through at once; two of them
\* fit into a run.
OnDropFull == OnDropOf(FullBatches, 2 * MaxFiles)

\* processDocument, from the return of extractTextFromFile to the await of
\* the insert.
Extracted ==
    /\ \E p \in 1 .. Len(procs), readOk \in BOOLEAN :
          /\ procs[p].pc = "extracting"
          /\ LET content == ExtractTextFromFile(procs[p].file, readOk)
             IN procs' = [procs EXCEPT
                    ![p].pc = "inserting",
                    ![p].content = content,
                    ![p].chunks = ChunkText(content, DefaultChunkSize,
                                            DefaultOverlap)]
    /\ UNCHANGED <<uploadedFiles, documents, messages, input, isLoading,
                   selection>>
    /\ UNCHANGED <<chunkVars, edgeVars, assistVars>>

\* The row of supabase.from('documents').insert(...); by is the call that
\* inserted it (not a column of the table).
DocumentRow(p) ==
    [name |-> procs[p].file.name, size |-> Len(procs[p].file.text),
     content |-> procs[p].content, chunks |-> procs[p].chunks,
     status |-> "processed", by |-> p]

\* processDocument, from the return of the insert to its end: the row is in
\* the table and the entry is completed, or the insert failed and the catch
\* block marks the entry.
InsertDone ==
    /\ \E p \in 1 .. Len(procs), ok \in BOOLEAN :
          /\ procs[p].pc = "inserting"
          /\ procs' = [procs EXCEPT ![p].pc = "done"]
          /\ IF ok
             THEN /\ documents' = Append(documents, DocumentRow(p))
                  /\ uploadedFiles' =
                        MarkCompleted(uploadedFiles, procs[p].fileId,
                                      procs[p].content, procs[p].chunks)
             ELSE /\ documents' = documents
                  /\ uploadedFiles' = MarkError(uploadedFiles, procs[p].fileId)
    /\ UNCHANGED <<messages, input, isLoading, selection>>
    /\ UNCHANGED <<chunkVars, edgeVars, assistVars>>

\* removeFile(id), from the button of an entry
RemoveFile ==
    /\ \E i \in 1 .. Len(uploadedFiles) :
          LET id == uploadedFiles[i].id
              Kept(f) == f.id # id
          IN uploadedFiles' = SelectSeq(uploadedFiles, Kept)
    /\ UNCHANGED <<documents, procs, messages, input, isLoading, selection>>
    /\ UNCHANGED <<chunkVars, edgeVars, assistVars>>

----------------------------------------------------------------------------
(* ChatInterface, the same variant: onDrop and removeFile.  Every dropped    *)
(* file has its own asynchronous callback, which runs up to its await inside *)
(* onDrop and takes one more step when extractTextFromFile returns or        *)
(* throws.  procs holds these callbacks; dropped (in an entry) and finished  *)
(* (in a callback) record the order of the drops and of the completions and  *)
(* are not part of the program's state.                                      *)

\* newFile of onDrop
ChatNewFile(file, fileId, nth) ==
    [id |-> fileId, name |-> file.name, status |-> "uploading",
     progress |-> 0, content |-> <<>>, dropped |-> nth]

\* The two updates after the await: status 'completed', progress 100, and
\* then the content.
ChatMarkCompleted_ToEnd(files, fileId, content) ==
    LET Other(f) == f.id # fileId
        Own(f) == f.id = fileId
        own == SelectSeq(files, Own)
    IN SelectSeq(files, Other) \o
       [j \in 1 .. Len(own) |->
           [own[j] EXCEPT !.status = "completed", !.progress = 100,
                          !.content = content]]
ChatMarkCompleted(files, fileId, content) ==
    [j \in 1 .. Len(files) |->
        IF files[j].id = fileId
        THEN [files[j] EXCEPT !.status = "completed", !.progress = 100,
                              !.content = content]
        ELSE files[j]]

\* The state updates onDrop queues, applied in order: for every file the
\* append of newFile and then the update to 'processing'.
RECURSIVE ChatAfterDrop(_, _, _, _)
ChatAfterDrop(files, batch, ids, nth) ==
    IF batch = <<>> THEN files
    ELSE ChatAfterDrop(
             MarkProcessing(Append(files, ChatNewFile(Head(batch), Head(ids), nth)),
                            Head(ids)),
             Tail(batch), Tail(ids), nth + 1)

ChatStartedCalls(batch, ids) ==
    [i \in 1 .. Len(batch) |->
        [fileId |-> ids[i], file |-> batch[i], pc |-> "extracting",
         finished |-> 0]]

\* The files the model drops on the chat, in this order: doc1.txt, doc2.txt,
\* ... with the text of cats.txt, of grass.txt and the empty text in turn.
DocName(k) == <<"d", "o", "c">> \o NumberToString(k) \o <<".", "t", "x", "t">>

ChatFile(k) ==
    [name |-> DocName(k),
     text |-> IF k % 3 = 1 THEN CatsText
              ELSE IF k % 3 = 2 THEN GrassText
              ELSE <<>>]

\* acceptedFiles of a drop when already dropped files were dropped before.
ChatBatches(already) ==
    {[i \in 1 .. n |-> ChatFile(already + i)] : n \in 1 .. MaxDropped - already}

\* The same with the empty text first: doc1.txt is an empty file.
ReadyFile(k) ==
    [name |-> DocName(k),
     text |-> IF k % 2 = 1 THEN <<>> ELSE CatsText]

ReadyBatches(already) ==
    {[i \in 1 .. n |-> ReadyFile(already + i)] : n \in 1 .. MaxDropped - already}

\* onDrop(acceptedFiles)
ChatOnDropOf(batches) ==
    /\ \E batch \in batches :
          \E ids \in IdDraws(Len(batch)) :
              /\ uploadedFiles' =
                    ChatAfterDrop(uploadedFiles, batch, ids, Len(procs) + 1)
              /\ procs' = procs \o ChatStartedCalls(batch, ids)
    /\ UNCHANGED <<documents, messages, input, isLoading, selection>>
    /\ UNCHANGED <<chunkVars, edgeVars, assistVars>>

ChatOnDrop == ChatOnDropOf(ChatBatches(Len(procs)))

ReadyOnDrop == ChatOnDropOf(ReadyBatches(Len(procs)))

\* How many callbacks have finished.
FinishedCalls == Cardinality({p \in 1 .. Len(procs) : procs[p].pc = "done"})

\* The callback of onDrop from the return of extractTextFromFile on: the
\* entry is completed and gets the text, or extractTextFromFile threw and
\* the catch block marks the entry.
ChatExtracted ==
    /\ \E p \in 1 .. Len(procs), readOk \in BOOLEAN :
          /\ procs[p].pc = "extracting"
          /\ procs' = [procs EXCEPT ![p].pc = "done",
                                    ![p].finished = FinishedCalls + 1]
          /\ uploadedFiles' =
                IF readOk
                THEN ChatMarkCompleted(uploadedFiles, procs[p].fileId,
                                       procs[p].file.text)
                ELSE MarkError(uploadedFiles, procs[p].fileId)
    /\ UNCHANGED <<documents, messages, input, isLoading, selection>>
    /\ UNCHANGED <<chunkVars, edgeVars, assistVars>>

\* removeFile(id), from the button of an entry
ChatRemoveFile ==
    /\ \E i \in 1 .. Len(uploadedFiles) :
          LET id == uploadedFiles[i].id
              Kept(f) == f.id # id
          IN uploadedFiles' = SelectSeq(uploadedFiles, Kept)
    /\ UNCHANGED <<documents, procs, messages, input, isLoading, selection>>
    /\ UNCHANGED <<chunkVars, edgeVars, assistVars>>

\* The questions of the runs with drops: one for each branch of handleSubmit
\* that works on the joined context.
BranchQuestions == {AskCatsFish, AskHow}

AskQuestion == SetInputOf(BranchQuestions)

\* The chat component mounted, nothing dropped yet.
ChatMounted ==
    /\ uploadedFiles = <<>>
    /\ messages = <<Greeting>>
    /\ input = <<>>
    /\ isLoading = FALSE
    /\ selection = NoSelection

----------------------------------------------------------------------------
(* The uploads driven by a timer: onDrop and removeFile of ChatInterface     *)
(* (the variant that asks the chat-completion function) and of               *)
(* DocumentUpload (the variant without processDocument), which are the same  *)
(* code.  timers holds the intervals onDrop has started: the id its callback *)
(* looks for, whether clearInterval was called on it, and the parity of the  *)
(* number of times it has fired (not part of the program's state).           *)

ProgressStep == 10
UploadingBelow == 50
ProcessingBelow == 90
FullProgress == 100

\* newFile of onDrop
TimerNewFile(file, fileId) ==
    [id |-> fileId, name |-> file.name, size |-> file.size,
     status |-> "uploading", progress |-> 0]

\* The function the interval's callback maps over the entries.
TickFile(f, fileId) ==
    IF f.id # fileId THEN f
    ELSE IF f.progress < UploadingBelow
    THEN [f EXCEPT !.progress = f.progress + ProgressStep,
                   !.status = "uploading"]
    ELSE IF f.progress < ProcessingBelow
    THEN [f EXCEPT !.progress = f.progress + ProgressStep,
                   !.status = "processing"]
    ELSE [f EXCEPT !.progress = FullProgress, !.status = "completed"]

\* prev.map(f => ...)
TickFiles(files, fileId) ==
    [j \in 1 .. Len(files) |-> TickFile(files[j], fileId)]

\* The callback reaches clearInterval(uploadInterval): an entry with the id
\* is in the else branch.
TickClears(files, fileId) ==
    \E j \in 1 .. Len(files) :
        /\ files[j].id = fileId
        /\ ~(files[j].progress < UploadingBelow)
        /\ ~(files[j].progress < ProcessingBelow)

NewTimer(fileId) == [fileId |-> fileId, cleared |-> FALSE, parity |-> 0]

\* The files the model drops, in this order: doc1.txt, doc2.txt, ...
TimerFile(k) == [name |-> DocName(k), size |-> k]

TimerBatches(already) ==
    {[i \in 1 .. n |-> TimerFile(already + i)] : n \in 1 .. MaxDropped - already}

\* The draws of Math.random the model follows for n files, as IdDraws.
TimerUsedIds == {timers[t].fileId : t \in 1 .. Len(timers)}

TimerMaxUsedId ==
    IF TimerUsedIds = {} THEN 0
    ELSE CHOOSE m \in TimerUsedIds : \A u \in TimerUsedIds : u <= m

TimerFreshDraw(n) == [i \in 1 .. n |-> TimerMaxUsedId + i]

TimerIdDraws(n) ==
    {TimerFreshDraw(n)}
    \cup {[TimerFreshDraw(n) EXCEPT ![1] = u] : u \in TimerUsedIds}
    \cup (IF n >= 2 THEN {[TimerFreshDraw(n) EXCEPT ![2] = TimerMaxUsedId + 1]}
          ELSE {})

\* No timer was started and no chat-completion call is awaited.
AssistIdle ==
    /\ timers = <<>>
    /\ pending = <<>>

\* onDrop(acceptedFiles): every file is appended and gets its interval.
TimerOnDrop ==
    /\ \E batch \in TimerBatches(Len(timers)) :
          \E ids \in TimerIdDraws(Len(batch)) :
              /\ uploadedFiles' =
                    uploadedFiles \o
                    [i \in 1 .. Len(batch) |-> TimerNewFile(batch[i], ids[i])]
              /\ timers' = timers \o [i \in 1 .. Len(batch) |-> NewTimer(ids[i])]
    /\ UNCHANGED <<messages, input, isLoading, selection, pending>>
    /\ UNCHANGED <<chunkVars, uploadVars, edgeVars>>

\* The interval t fires: its callback runs the update of uploadedFiles.
TickOf(t) ==
    /\ t \in 1 .. Len(timers)
    /\ ~timers[t].cleared
    /\ uploadedFiles' = TickFiles(uploadedFiles, timers[t].fileId)
    /\ timers' = [timers EXCEPT
          ![t].cleared = TickClears(uploadedFiles, timers[t].fileId),
          ![t].parity = 1 - timers[t].parity]
    /\ UNCHANGED <<messages, input, isLoading, selection, pending>>
    /\ UNCHANGED <<chunkVars, uploadVars, edgeVars>>

Tick == \E t \in 1 .. Len(timers) : TickOf(t)

\* removeFile(id), from the button of an entry
TimerRemoveFile ==
    /\ \E i \in 1 .. Len(uploadedFiles) :
          LET id == uploadedFiles[i].id
              Kept(f) == f.id # id
          IN uploadedFiles' = SelectSeq(uploadedFiles, Kept)
    /\ UNCHANGED <<messages, input, isLoading, selection>>
    /\ UNCHANGED <<chunkVars, uploadVars, edgeVars, assistVars>>

----------------------------------------------------------------------------
(* ChatInterface, the variant that asks the chat-completion function:        *)
(* handleSubmit.  It runs up to the await of supabase.functions.invoke in    *)
(* one step and from the return of invoke to setIsLoading(false) in another. *)
(* pending holds the calls awaited: the body sent and the uploadedFiles of   *)
(* the render handleSubmit ran in, which is what the code after the await    *)
(* still sees.                                                               *)

DefaultAnswer ==
    <<"I", " ", "a", "p", "o", "l", "o", "g", "i", "z", "e", ",", " ", "b",
      "u", "t", " ", "I", " ", "e", "n", "c", "o", "u", "n", "t", "e", "r",
      "e", "d", " ", "a", "n", " ", "e", "r", "r", "o", "r", " ", "p", "r",
      "o", "c", "e", "s", "s", "i", "n", "g", " ", "y", "o", "u", "r", " ",
      "r", "e", "q", "u", "e", "s", "t", ".">>

ErrorAnswer ==
    <<"I", " ", "a", "p", "o", "l", "o", "g", "i", "z", "e", ",", " ", "b",
      "u", "t", " ", "I", " ", "e", "n", "c", "o", "u", "n", "t", "e", "r",
      "e", "d", " ", "a", "n", " ", "e", "r", "r", "o", "r", " ", "p", "r",
      "o", "c", "e", "s", "s", "i", "n", "g", " ", "y", "o", "u", "r", " ",
      "r", "e", "q", "u", "e", "s", "t", ".", " ", "P", "l", "e", "a", "s",
      "e", " ", "t", "r", "y", " ", "a", "g", "a", "i", "n", " ", "o", "r",
      " ", "c", "h", "e", "c", "k", " ", "y", "o", "u", "r", " ", "i", "n",
      "t", "e", "r", "n", "e", "t", " ", "c", "o", "n", "n", "e", "c", "t",
      "i", "o", "n", ".">>
HistoryLen == 5
SourceCap == 2

\* if (!input.trim() || isLoading) return
SubmitGuard_NoTrim(question, loading) == ~(question = <<>> \/ loading)
SubmitGuard(question, loading) == ~(Trim(question) = <<>> \/ loading)

\* uploadedFiles.filter(f => f.status === 'completed')
IsCompleted(f) == f.status = "completed"
ReadyFiles(files) == SelectSeq(files, IsCompleted)

\* The body of the invoke: the last HistoryLen messages and the question,
\* and a `Document: ${f.name}` line for every completed file.
RequestBody(msgs, question, files) ==
    LET n == Min(HistoryLen, Len(msgs))
        ready == ReadyFiles(files)
    IN [messages |->
            [i \in 1 .. n |->
                LET msg == msgs[Len(msgs) - n + i]
                IN [role |-> IF msg.type = "user" THEN "user" ELSE "assistant",
                    content |-> msg.content]]
            \o <<[role |-> "user", content |-> question]>>,
        documentContext |->
            Given([i \in 1 .. Len(ready) |-> DocumentLabel \o ready[i].name])]

\* What invoke resolves to: the body of a 2xx reply as data, an error for
\* any other reply and when the function was not reached.
NotReached == [error |-> TRUE, data |-> <<>>]

InvokeResult(served) ==
    IF served.status = 200
    THEN [error |-> FALSE, data |-> served.body]
    ELSE [error |-> TRUE, data |-> <<>>]

\* Math.floor(Math.random() * 10) + 1 and 0.85 + Math.random() * 0.1 (in
\* hundredths): the low ends and the high ends of their ranges.
SourceDraws == {[page |-> 1, relevance |-> 85], [page |-> 10, relevance |-> 94]}

\* assistantMessage of the try block, errorMessage of the catch block
AnswerOf(result, files, draws) ==
    IF result.error
    THEN [type |-> "assistant", content |-> ErrorAnswer, sources |-> <<>>]
    ELSE LET aiResponse == IF result.data.response # <<>>
                           THEN result.data.response
                           ELSE DefaultAnswer
             isQuotaError == result.data.isQuotaError
             ready == ReadyFiles(files)
         IN [type |-> "assistant",
             content |-> aiResponse,
             sources |->
                 IF ~isQuotaError /\ Len(ready) > 0
                 THEN [i \in 1 .. Min(SourceCap, Len(ready)) |->
                          [document |-> ready[i].name,
                           page |-> draws[i].page,
                           relevance |-> draws[i].relevance]]
                 ELSE <<>>]

\* setIsLoading(false), the statement after the try/catch
LoadingAfter_InTry(result) == result.error
LoadingAfter(result) == FALSE

\* The questions typed in these runs.
AssistQuestions == {AskPlain, AskBlank}

AssistSetInput == SetInputOf(AssistQuestions)

\* handleSubmit, from its guard to the await of invoke
AssistSubmit ==
    /\ SubmitGuard(input, isLoading)
    /\ Len(messages) < 1 + 2 * MaxTurns
    /\ messages' = Append(messages, [type |-> "user", content |-> input,
                                     sources |-> <<>>])
    /\ input' = <<>>
    /\ isLoading' = TRUE
    /\ pending' = Append(pending,
                         [body |-> RequestBody(messages, input, uploadedFiles),
                          files |-> uploadedFiles])
    /\ UNCHANGED <<uploadedFiles, selection, timers>>
    /\ UNCHANGED <<chunkVars, uploadVars, edgeVars>>

\* handleSubmit, from the return of invoke to setIsLoading(false); the
\* chat-completion function serves the call in between, unless the call
\* does not reach it.
AssistReply ==
    /\ pending # <<>>
    /\ \E reached \in BOOLEAN, keyConfigured \in BOOLEAN,
          upstream \in GeminiOutcomes, draws \in [1 .. SourceCap -> SourceDraws] :
          LET call == Head(pending)
              served == ServeChat("chat-completion", keyConfigured, call.body,
                                  SystemContent(call.body.documentContext),
                                  upstream)
              result == IF reached THEN InvokeResult(served) ELSE NotReached
          IN /\ edge' = IF reached THEN served ELSE edge
             /\ messages' = Append(messages, AnswerOf(result, call.files, draws))
             /\ isLoading' = LoadingAfter(result)
    /\ pending' = Tail(pending)
    /\ UNCHANGED <<uploadedFiles, input, selection, timers>>
    /\ UNCHANGED <<chunkVars, uploadVars>>

\* The files of these runs: doc1.txt, doc2.txt, ... dropped before, all
\* completed, or all but the last, which is one tick of its timer from it.
AssistFile(k, done) ==
    [id |-> k, name |-> DocName(k), size |-> k,
     status |-> IF done THEN "completed" ELSE "processing",
     progress |-> IF done THEN FullProgress ELSE ProcessingBelow]

AssistMounted ==
    /\ \E n \in 0 .. MaxDocs : \E lastDone \in BOOLEAN :
          LET done == [k \in 1 .. n |-> k < n \/ lastDone]
          IN /\ uploadedFiles = [k \in 1 .. n |-> AssistFile(k, done[k])]
             /\ timers = [k \in 1 .. n |->
                             [fileId |-> k, cleared |-> done[k], parity |-> 0]]
    /\ messages = <<Greeting>>
    /\ input = <<>>
    /\ isLoading = FALSE
    /\ selection = NoSelection
    /\ pending = <<>>

----------------------------------------------------------------------------
(* Specifications *)

\* chunkText called on a generated text, the chat component idle.
ChunkInit == ChunkStart /\ ChatIdle /\ UploadIdle /\ EdgeIdle /\ AssistIdle

ChunkNext == ChunkIter \/ ChunkReturn

ChunkSpec == ChunkInit /\ [][ChunkNext]_vars

\* A running call always takes its next step.
ChunkFairSpec == ChunkSpec /\ WF_vars(ChunkNext)

\* The chat component over a generated file list, no chunkText call running.
SelectInit == ChatInit /\ ChunkIdle /\ UploadIdle /\ EdgeIdle /\ AssistIdle

ChatNext == SetInput \/ HandleSubmit

SelectSpec == SelectInit /\ [][ChatNext]_vars

\* The chat component over the files that include a very long one.
BudgetInit == BudgetChatInit /\ ChunkIdle /\ UploadIdle /\ EdgeIdle /\ AssistIdle

BudgetSpec == BudgetInit /\ [][ChatNext]_vars

\* The chat component with files dropped, read and removed while questions
\* are asked.
ChatDropInit == ChatMounted /\ UploadIdle /\ ChunkIdle /\ EdgeIdle /\ AssistIdle

ChatDropNext ==
    ChatOnDrop \/ ChatExtracted \/ ChatRemoveFile \/ AskQuestion \/ HandleSubmit

ChatDropSpec == ChatDropInit /\ [][ChatDropNext]_vars

\* The upload page: files are dropped, processed and removed.
UploadInit == ChatIdle /\ UploadIdle /\ ChunkIdle /\ EdgeIdle /\ AssistIdle

UploadNext == OnDrop \/ Extracted \/ InsertDone \/ RemoveFile

UploadSpec == UploadInit /\ [][UploadNext]_vars

\* The upload page with full drops; the steps of the calls and the removals
\* are followed only while at most MaxDropped files were dropped.
LimitNext ==
    \/ OnDrop
    \/ OnDropFull
    \/ (Len(procs) <= MaxDropped /\ (Extracted \/ InsertDone \/ RemoveFile))

LimitSpec == UploadInit /\ [][LimitNext]_vars

\* The edge functions serving generated requests.
EdgeInit == EdgeIdle /\ ChunkIdle /\ ChatIdle /\ UploadIdle /\ AssistIdle

EdgeNext == ChatCompletion \/ ChatCompletionPart003 \/ ProcessDocumentRequest

EdgeSpec == EdgeInit /\ [][EdgeNext]_vars

\* The same chat with an empty file among the files dropped.
ReadyInit == ChatMounted /\ UploadIdle /\ ChunkIdle /\ EdgeIdle /\ AssistIdle

ReadyNext ==
    ReadyOnDrop \/ ChatExtracted \/ ChatRemoveFile \/ AskQuestion \/ HandleSubmit

ReadySpec == ReadyInit /\ [][ReadyNext]_vars

\* The timer-driven uploads: files are dropped, their timers fire and the
\* user removes entries.
TimerInit == ChatIdle /\ UploadIdle /\ ChunkIdle /\ EdgeIdle /\ AssistIdle

TimerNext == TimerOnDrop \/ Tick \/ TimerRemoveFile

TimerSpec == TimerInit /\ [][TimerNext]_vars

\* setInterval fires every timer that was not cleared again and again.
TimerFairSpec ==
    TimerSpec /\ \A t \in 1 .. MaxDropped : WF_vars(TickOf(t))

\* The chat that asks the chat-completion function: questions are typed and
\* submitted, the calls return, timers fire and entries are removed.
AssistInit == AssistMounted /\ UploadIdle /\ ChunkIdle /\ EdgeIdle

AssistNext ==
    AssistSetInput \/ AssistSubmit \/ AssistReply \/ Tick \/ TimerRemoveFile

AssistSpec == AssistInit /\ [][AssistNext]_vars

\* invoke returns or fails: an awaited call is in the end resumed.
AssistFairSpec == AssistSpec /\ WF_vars(AssistReply)

----------------------------------------------------------------------------
(* Properties of chunkText *)

ChunkDone == chunkPc = "done"

\* The first chunk whole, every later chunk without its first ov characters.
Reassemble(cs, ov) ==
    IF cs = <<>> THEN <<>>
    ELSE Head(cs) \o
         Concat([i \in 1 .. Len(cs) - 1 |->
                    SubSeq(cs[i + 1], ov + 1, Len(cs[i + 1]))])

\* C1 - Chunk coverage: for valid (size, overlap), the chunks returned,
\* with the first `overlap` characters of every chunk after the first
\* dropped, concatenate to the text; there are zero chunks iff the text is
\* empty.
C1_ChunkCoverage ==
    (ValidParams /\ ChunkDone) =>
        /\ Reassemble(chunks, overlap) = text
        /\ (Len(chunks) = 0) <=> (text = <<>>)

C1_Witness ==
    /\ ValidParams /\ ChunkDone
    /\ overlap > 0
    /\ Len(chunks) >= 3
    /\ text # SampleText

\* C2 - Chunker preconditions, as claimed: with size <= 0, overlap < 0 or
\* overlap >= size the call fails (it does not return) and emits no chunk.
C2_InvalidParameterRejected ==
    ~ValidParams => (chunks = <<>> /\ ~ChunkDone)

\* C3 - Chunker termination: for valid (size, overlap) the loop terminates,
\* and from one iteration to the next start grows by exactly size - overlap.
C3_Termination ==
    /\ ValidParams => <>ChunkDone
    /\ [][(ValidParams /\ chunkPc = "loop" /\ chunkPc' = "loop")
            => start' = start + (chunkSize - overlap)]_vars

C3_Witness ==
    /\ ValidParams /\ ChunkDone
    /\ Len(spans) >= 2
    /\ spans[2][1] = chunkSize - overlap
    /\ overlap = 1

\* C4 as claimed - Chunk count: for every non-empty text and valid
\* (size, overlap) the number of chunks is
\* ceil((len - overlap) / (size - overlap)).
C4_CountAsClaimed ==
    (ValidParams /\ ChunkDone /\ Len(text) > 0) =>
        Len(chunks) = CeilDiv(Len(text) - overlap, chunkSize - overlap)

\* C4 amended - Chunk count: for every non-empty text and valid
\* (size, overlap) the number of chunks is
\* ceil((len - overlap) / (size - overlap)) when len > overlap, and 1 when
\* len <= overlap.
C4_ChunkCount ==
    (ValidParams /\ ChunkDone /\ Len(text) > 0) =>
        Len(chunks) = IF Len(text) > overlap
                      THEN CeilDiv(Len(text) - overlap, chunkSize - overlap)
                      ELSE 1

C4_Witness ==
    /\ ValidParams /\ ChunkDone
    /\ Len(text) > 0
    /\ Len(text) <= overlap
    /\ Len(chunks) = 1

\* C5 - Chunk structure: for valid (size, overlap) the first chunk starts
\* at 0, chunk i+1 starts at (end of chunk i) - overlap, every chunk is the
\* text of its window and at most size long, no chunk is empty, and the
\* last chunk returned ends at the length of the text.
C5_ChunkStructure ==
    ValidParams =>
        /\ Len(spans) = Len(chunks)
        /\ Len(spans) > 0 => spans[1][1] = 0
        /\ \A i \in 1 .. Len(spans) :
              /\ 0 <= spans[i][1]
              /\ spans[i][1] < spans[i][2]
              /\ spans[i][2] <= Len(text)
              /\ chunks[i] = SubSeq(text, spans[i][1] + 1, spans[i][2])
              /\ Len(chunks[i]) <= chunkSize
              /\ Len(chunks[i]) > 0
        /\ \A i \in 1 .. Len(spans) - 1 :
              spans[i + 1][1] = spans[i][2] - overlap
        /\ (ChunkDone /\ Len(spans) > 0) =>
              spans[Len(spans)][2] = Len(text)

C5_Witness ==
    /\ ValidParams /\ ChunkDone
    /\ Len(spans) >= 2
    /\ overlap >= 1
    /\ Len(chunks[Len(chunks)]) < chunkSize
    /\ spans[Len(spans)][2] = Len(text)

ClaimedChunk2 ==
    <<"t", ".", " ", "W", "a", "t", "e", "r", " ", "i", "s", " ", "w", "e",
      "t", ".", " ", "G", "r", "a">>

ClaimedChunk3 ==
    <<"G", "r", "a", "s", "s", " ", "i", "s", " ", "g", "r", "e", "e", "n",
      ".">>

SampleChunk1 ==
    <<"T", "h", "e", " ", "s", "k", "y", " ", "i", "s", " ", "b", "l", "u",
      "e", ".", " ", "W", "a", "t">>

SampleChunk2 ==
    <<".", " ", "W", "a", "t", "e", "r", " ", "i", "s", " ", "w", "e", "t",
      ".", " ", "G", "r", "a", "s">>

SampleChunk3 ==
    <<" ", "G", "r", "a", "s", "s", " ", "i", "s", " ", "g", "r", "e", "e",
      "n", ".">>

SampleRun == text = SampleText /\ chunkSize = 20 /\ overlap = 5

\* C6 as claimed - the sample text with size 20 and overlap 5 is chunked
\* into "The sky is blue. Wat", "t. Water is wet. Gra", "Grass is green.".
C6_ScenarioAsClaimed ==
    (SampleRun /\ ChunkDone) =>
        chunks = <<SampleChunk1, ClaimedChunk2, ClaimedChunk3>>

\* C6 amended - the sample text with size 20 and overlap 5 is chunked into
\* "The sky is blue. Wat", ". Water is wet. Gras", " Grass is green.".
C6_Scenario ==
    (SampleRun /\ ChunkDone) =>
        chunks = <<SampleChunk1, SampleChunk2, SampleChunk3>>

C6_Witness == SampleRun /\ ChunkDone /\ Len(chunks) = 3

----------------------------------------------------------------------------
(* Properties of the relevance selection *)

Range(xs) == {xs[i] : i \in 1 .. Len(xs)}

\* How many of the distinct keywords the sentence contains.
MatchedCount(sentence, keywords) ==
    Cardinality({w \in Range(keywords) : Includes(ToLowerCase(sentence), w)})

LastMessage == messages[Len(messages)]

\* C7 - Selector ordering, as claimed: the fragments returned are in
\* descending order of the number of keywords they contain, and no sentence
\* left out contains more keywords than a fragment returned.
C7_SelectorOrdering ==
    (selection.called /\ ~selection.fallback) =>
        LET fr == selection.fragments
            kws == selection.keywords
        IN /\ \A i, j \in 1 .. Len(fr) :
                i < j => MatchedCount(fr[i], kws) >= MatchedCount(fr[j], kws)
           /\ \A st \in Range(selection.sentences) \ Range(fr) :
                \A i \in 1 .. Len(fr) :
                    MatchedCount(fr[i], kws) >= MatchedCount(st, kws)

\* C8 - Selector fallback, as claimed: when no sentence contains a keyword,
\* the selection returns one fragment per source document, the first
\* FallbackLen characters of that document's own text, with score 0.
C8_SelectorFallback ==
    (selection.called /\ selection.fallback) =>
        /\ Len(selection.fragments) = Len(selection.docs)
        /\ \A i \in 1 .. Len(selection.docs) :
              selection.fragments[i] =
                  Substring0(selection.docs[i].content, FallbackLen)
        /\ \A i \in 1 .. Len(LastMessage.sources) :
              LastMessage.sources[i].relevance = 0

\* C9 - Selector tokenization, as claimed: the keywords are the lower-cased
\* tokens of the question between runs of whitespace that are longer than
\* KeywordMinLen characters, and no shorter or empty token is a keyword.
C9_SelectorTokenization ==
    selection.called =>
        /\ Range(selection.keywords) =
              {w \in Range(SplitRuns(ToLowerCase(selection.question), Whitespace)) :
                  Len(w) > KeywordMinLen}
        /\ \A k \in 1 .. Len(selection.keywords) :
              Len(selection.keywords[k]) > KeywordMinLen

\* C10 - Selector keyword coverage, as claimed: the relevance reported with
\* each source of an answer is matched_keyword_count / total_keyword_count
\* of a fragment returned (relevance is kept in hundredths).
C10_SelectorScore ==
    (selection.called /\ ~selection.fallback) =>
        LET total == Cardinality(Range(selection.keywords))
        IN \A i \in 1 .. Len(LastMessage.sources) :
              \E j \in 1 .. Len(selection.fragments) :
                  LastMessage.sources[i].relevance * total =
                      100 * MatchedCount(selection.fragments[j], selection.keywords)

----------------------------------------------------------------------------
(* Properties of the answer assembled from the documents *)

RECURSIVE TotalLen(_)
TotalLen(xs) == IF xs = <<>> THEN 0 ELSE Len(Head(xs)) + TotalLen(Tail(xs))

\* C11 - Assembler budget, as claimed: the document text findRelevantContent
\* puts into an answer is at most the character budget per source (2000, the
\* largest default the design names) times the number of sources.
C11_AssemblerBudget ==
    selection.called =>
        TotalLen(selection.fragments) <= 2000 * Len(selection.docs)

\* C12 - Assembler attribution, as claimed: every fragment of document text
\* in an answer carries the non-empty name of one of the documents the
\* answer was built from.
C12_AssemblerAttribution ==
    selection.called =>
        \A i \in 1 .. Len(selection.fragments) :
            \E d \in 1 .. Len(selection.docs) :
                /\ selection.docs[d].name # <<>>
                /\ Includes(selection.fragments[i], selection.docs[d].name)

\* C19 - Result cap: findRelevantContent returns at most 3 fragments across
\* all documents together, and the answer is made of exactly these.
C19_ResultCap ==
    selection.called =>
        /\ Len(selection.fragments) <= 3
        /\ LastMessage.content =
              FoundPrefix \o
              (IF selection.fallback
               THEN Join(selection.fragments, <<>>) \o Ellipsis
               ELSE Join(selection.fragments, <<".", " ">>) \o <<".">>)

\* More than 3 sentences contain a keyword and 3 are returned.
C19_Witness ==
    /\ selection.called
    /\ ~selection.fallback
    /\ LET Relevant(st) == MatchesSome(st, selection.keywords)
       IN Len(SelectSeq(selection.sentences, Relevant)) > 3
    /\ Len(selection.fragments) = 3

IsChatFunction(fn) == fn \in {"chat-completion", "part_003"}

\* C13 - Assembler empty case, as claimed: when a chat function is asked
\* with no document context, the prompt it sends to the language model has
\* the 'no documents' note in place of the context and no context heading.
C13_AssemblerEmptyCase ==
    (/\ IsChatFunction(edge.fn)
     /\ edge.contents # <<>>
     /\ ~HasContext(edge.request.documentContext)) =>
        /\ Includes(edge.contents[1].text, NoDocumentsNote)
        /\ ~Includes(edge.contents[1].text, ContextHeading)
        /\ ~Includes(edge.contents[1].text, ContextHeadingPart003)

\* C14 - Empty input text is not an error, as claimed: process-document
\* answers a request whose text is the empty string with success and zero
\* chunks.
C14_EmptyTextNotAnError ==
    (/\ edge.fn = "process-document"
     /\ edge.keyConfigured
     /\ edge.request.text = <<>>
     /\ edge.request.fileName # <<>>) =>
        /\ edge.status = 200
        /\ edge.body.success
        /\ edge.body.chunks = 0

----------------------------------------------------------------------------
(* Properties of the upload page *)

\* The status changes the lifecycle allows.
LifecycleEdges ==
    {<<"uploading", "processing">>, <<"processing", "completed">>,
     <<"processing", "error">>}

\* C15 - Document lifecycle order, as claimed: in every step that removes no
\* entry, the status of every entry stays or moves along uploading ->
\* processing -> (completed | error); so it never moves backwards and
\* completed and error are terminal.
C15_LifecycleOrder ==
    [][Len(uploadedFiles') >= Len(uploadedFiles) =>
          \A i \in 1 .. Len(uploadedFiles) :
              \/ uploadedFiles'[i].status = uploadedFiles[i].status
              \/ <<uploadedFiles[i].status, uploadedFiles'[i].status>>
                    \in LifecycleEdges]_vars

\* C16 - Removal destroys the document, as claimed: the table holds no row
\* of a document that has no entry in uploadedFiles (any more).
C16_RemovalDestroys ==
    \A r \in 1 .. Len(documents) :
        \E i \in 1 .. Len(uploadedFiles) :
            uploadedFiles[i].id = procs[documents[r].by].fileId

\* C17 - Document limit, as claimed: uploadedFiles never holds more than 20
\* documents.
C17_DocumentLimit == Len(uploadedFiles) <= 20

\* C18 - Concurrent processing is isolated, as claimed: a step of one
\* processDocument call after the drop loses no entry and changes at most
\* one entry of uploadedFiles, the entry of its own file.
C18_IsolatedProcessing ==
    [][(procs' # procs /\ Len(procs') = Len(procs)) =>
          /\ Len(uploadedFiles') = Len(uploadedFiles)
          /\ Cardinality({i \in 1 .. Len(uploadedFiles) :
                             uploadedFiles'[i] # uploadedFiles[i]}) <= 1]_vars

----------------------------------------------------------------------------
(* Properties of the chat component with drops *)

\* The entries of a set in the order in which they were dropped.
RECURSIVE InDropOrder(_)
InDropOrder(S) ==
    IF S = {} THEN <<>>
    ELSE LET first == CHOOSE f \in S : \A g \in S : f.dropped <= g.dropped
         IN <<first>> \o InDropOrder(S \ {first})

UsableNow == {f \in Range(uploadedFiles) : IsUsable(f)}

\* C20 - Deterministic source ordering: an answer lists its sources, and
\* findRelevantContent gets the documents, in the order in which the
\* documents were dropped, whatever order they were completed in; the
\* explain answer begins with the block of the first dropped document.
C20_SourceOrdering ==
    [][messages' # messages =>
          LET ordered == InDropOrder(UsableNow)
              answer == messages'[Len(messages')]
          IN /\ Len(answer.sources) = Len(ordered)
             /\ \A i \in 1 .. Len(ordered) :
                   answer.sources[i].document = ordered[i].name
             /\ selection'.called => selection'.docs = ordered
             /\ (ordered # <<>> /\ AsksHow(input) /\ ~AsksWhat(input)) =>
                   Includes(answer.content,
                            ExplainPrefix
                            \o Substring0(DocumentBlock(ordered[1]), ExplainLen))]_vars

\* An answer with two sources whose first document was completed after the
\* second.
C20_Witness ==
    /\ Len(messages) >= 3
    /\ Len(LastMessage.sources) = 2
    /\ LastMessage.sources[1].document # LastMessage.sources[2].document
    /\ Len(procs) = 2
    /\ procs[1].finished > procs[2].finished
    /\ procs[2].finished > 0
    /\ Len(uploadedFiles) = 2
    /\ \A i \in 1 .. 2 : /\ IsUsable(uploadedFiles[i])
                         /\ uploadedFiles[i].dropped = i
                         /\ LastMessage.sources[i].document = uploadedFiles[i].name

----------------------------------------------------------------------------
(* Termination of chunkText for every (chunkSize, overlap) *)

\* C21 - No infinite loop on misconfigured overlap, as claimed: chunkText
\* terminates for every text and every (chunkSize, overlap), overlap =
\* chunkSize and overlap > chunkSize with a text longer than chunkSize
\* included; a pass of the loop that does not return moves start forward.
C21_TerminatesAlways ==
    /\ [][(chunkPc = "loop" /\ chunkPc' = "loop") => start' > start]_vars
    /\ <>ChunkDone

----------------------------------------------------------------------------
(* Properties of the fragments findRelevantContent selects *)

\* The texts that context assembly adds around the documents' own text.
AssemblyMarks ==
    {<<"-", "-", "-">>,
     <<"D", "o", "c", "u", "m", "e", "n", "t", ":">>,
     <<"C", "o", "n", "t", "e", "n", "t", ":">>}

\* C22 - Each selected fragment belongs to exactly one document, as
\* claimed: every fragment the selection returns is a substring of the text
\* of one of the documents, and none contains the separator or a header
\* that context assembly added.
C22_FragmentOfOneDocument ==
    (selection.called /\ ~selection.fallback) =>
        \A i \in 1 .. Len(selection.fragments) :
            /\ \E d \in 1 .. Len(selection.docs) :
                  Includes(selection.docs[d].content, selection.fragments[i])
            /\ \A mark \in AssemblyMarks :
                  ~Includes(selection.fragments[i], mark)

----------------------------------------------------------------------------
(* Properties of the timer-driven uploads *)

\* The entry of the n-th file dropped is still in uploadedFiles.
Listed(n) ==
    \E j \in 1 .. Len(uploadedFiles) : uploadedFiles[j].name = DocName(n)

\* C26 - Simulated upload progress, as claimed: the progress of every entry
\* is a multiple of 10 between 0 and 100, no step lowers the progress of an
\* entry, an entry is 'completed' iff its progress is 100, and with the
\* timers firing fairly the entry of every file dropped is in the end
\* completed or removed.
C26_UploadProgress ==
    /\ [](\A j \in 1 .. Len(uploadedFiles) :
             /\ uploadedFiles[j].progress \in {10 * k : k \in 0 .. 10}
             /\ uploadedFiles[j].status = "completed"
                   <=> uploadedFiles[j].progress = 100)
    /\ [][\A j \in 1 .. Len(uploadedFiles), k \in 1 .. Len(uploadedFiles') :
             uploadedFiles'[k].name = uploadedFiles[j].name
                 => uploadedFiles'[k].progress >= uploadedFiles[j].progress]_vars
    /\ \A n \in 1 .. MaxDropped :
          [](Listed(n) =>
                <>(\A j \in 1 .. Len(uploadedFiles) :
                      uploadedFiles[j].name = DocName(n)
                          => uploadedFiles[j].status = "completed"))

\* C27 - Upload timers are always released, as claimed: with the timers
\* firing fairly, from some moment on every interval onDrop has started is
\* cleared, also when its file was removed before it was completed.
C27_TimersReleased ==
    <>[](\A t \in 1 .. Len(timers) : timers[t].cleared)

----------------------------------------------------------------------------
(* Properties of the chat that asks the chat-completion function *)

\* A step in which an awaited call returns: the code after the await runs.
ReplyStep == pending # <<>> /\ pending' = Tail(pending)

\* C23 - Quota signal handling: when the Gemini API reports
\* RESOURCE_EXHAUSTED, chat-completion replies with status 200 and
\* isQuotaError = true, and the assistant message built from the reply has
\* the quota text and no sources, whatever files are completed; on any other
\* upstream failure the reply has status 500 and the assistant message is
\* the error message, without sources.
C23_QuotaSignal ==
    [][(ReplyStep /\ edge'.request = Head(pending).body
                  /\ edge'.keyConfigured) =>
          LET answer == messages'[Len(messages')]
              upstream == edge'.upstream
              failed == ~upstream.ok \/ upstream.candidates = <<>>
          IN /\ Len(messages') = Len(messages) + 1
             /\ (failed /\ upstream.code = "RESOURCE_EXHAUSTED") =>
                   /\ edge'.status = 200
                   /\ edge'.body.isQuotaError
                   /\ answer = [type |-> "assistant", content |-> QuotaReply,
                                sources |-> <<>>]
             /\ (failed /\ upstream.code # "RESOURCE_EXHAUSTED") =>
                   /\ edge'.status = 500
                   /\ answer = [type |-> "assistant", content |-> ErrorAnswer,
                                sources |-> <<>>]]_vars

\* The quota reply was answered without sources although two files were
\* completed when the question was asked and are completed now.
C23_Witness ==
    /\ edge.fn = "chat-completion"
    /\ edge.upstream.code = "RESOURCE_EXHAUSTED"
    /\ edge.body.isQuotaError
    /\ Len(edge.request.documentContext.items) = 2
    /\ Len(ReadyFiles(uploadedFiles)) = 2
    /\ ~isLoading
    /\ Len(messages) = 3
    /\ messages[3].content = QuotaReply
    /\ messages[3].sources = <<>>

\* C24 - One question in flight: a submit is accepted only when no question
\* is awaiting its answer and the input is not empty or whitespace; so at
\* most one call is outstanding, isLoading is true exactly while it is, and
\* after the greeting the transcript alternates user message, assistant
\* message.
C24_OneInFlight ==
    /\ [](/\ Len(pending) <= 1
          /\ isLoading <=> pending # <<>>
          /\ \A i \in 2 .. Len(messages) :
                messages[i].type = IF i % 2 = 0 THEN "user" ELSE "assistant")
    /\ [][(isLoading \/ Trim(input) = <<>>) =>
             /\ Len(pending') <= Len(pending)
             /\ ~(/\ Len(messages') > Len(messages)
                  /\ messages'[Len(messages')].type = "user")]_vars

\* A question was accepted and its call is awaited.
C24_Witness ==
    /\ isLoading
    /\ Len(pending) = 1
    /\ Len(messages) = 2
    /\ messages[2] = [type |-> "user", content |-> AskPlain, sources |-> <<>>]
    /\ input = <<>>

\* C25 - Every accepted question is answered exactly once: a step that
\* accepts a question appends the user message and sets isLoading; when the
\* call returns or fails, exactly one assistant message is appended behind
\* that user message and isLoading is false again; no other step appends an
\* assistant message; and every question accepted is in the end answered.
C25_AnsweredOnce ==
    /\ [][ReplyStep =>
             /\ messages[Len(messages)].type = "user"
             /\ Len(messages') = Len(messages) + 1
             /\ SubSeq(messages', 1, Len(messages)) = messages
             /\ messages'[Len(messages')].type = "assistant"
             /\ ~isLoading']_vars
    /\ [][(messages' # messages /\ ~ReplyStep) =>
             /\ messages' = Append(messages, [type |-> "user", content |-> input,
                                              sources |-> <<>>])
             /\ isLoading']_vars
    /\ (isLoading ~> (~isLoading /\ messages[Len(messages)].type = "assistant"))

\* A call that came back with status 500 was answered with the error
\* message.
C25_Witness ==
    /\ ~isLoading
    /\ pending = <<>>
    /\ Len(messages) = 3
    /\ messages[2].type = "user"
    /\ messages[3] = [type |-> "assistant", content |-> ErrorAnswer,
                      sources |-> <<>>]
    /\ edge.status = 500

----------------------------------------------------------------------------
(* Properties of the collection of uploaded files *)

\* C28 - Ready means usable, as claimed: every entry with status
\* 'completed' has content stored and is among the files handleSubmit
\* builds the context from, so that the number of documents shown as ready
\* is the number of documents an answer draws on.
C28_ReadyMeansUsable ==
    /\ \A j \in 1 .. Len(uploadedFiles) :
          IsCompleted(uploadedFiles[j]) =>
              /\ uploadedFiles[j].content # <<>>
              /\ \E k \in 1 .. Len(CompletedFiles(uploadedFiles)) :
                    CompletedFiles(uploadedFiles)[k] = uploadedFiles[j]
    /\ Len(ReadyFiles(uploadedFiles)) = Len(CompletedFiles(uploadedFiles))

\* C29 - File ids are unique, as claimed: the ids of the entries of
\* uploadedFiles are pairwise distinct, so a removeFile(id) takes exactly
\* one entry out of the list.
C29_UniqueIds ==
    /\ [](HasDistinctIds(uploadedFiles))
    /\ [][Len(uploadedFiles') < Len(uploadedFiles)
             => Len(uploadedFiles') = Len(uploadedFiles) - 1]_vars

\* The ids of the entries, in the order of the list.
IdsOf(files) == [j \in 1 .. Len(files) |-> files[j].id]

\* C30 - Removal is final in the session collection: a step of a
\* processDocument call (the return of the extraction, the return of the
\* insert) leaves the list of ids in uploadedFiles as it is, so the entry
\* of a file removed while its call was running does not come back when the
\* call goes on to mark it completed or failed.
C30_RemovalIsFinal ==
    [][(procs' # procs /\ Len(procs') = Len(procs)) =>
          /\ IdsOf(uploadedFiles') = IdsOf(uploadedFiles)
          /\ \A p \in 1 .. Len(procs) :
                (\A j \in 1 .. Len(uploadedFiles) :
                     uploadedFiles[j].id # procs[p].fileId)
                  => \A k \in 1 .. Len(uploadedFiles') :
                         uploadedFiles'[k].id # procs[p].fileId]_vars

\* The call of a file has inserted its row and marked its entry completed
\* after the entry was removed, and no entry has the id.
C30_Witness ==
    \E p \in 1 .. Len(procs) :
        /\ procs[p].pc = "done"
        /\ \E r \in 1 .. Len(documents) : documents[r].by = p
        /\ \A j \in 1 .. Len(uploadedFiles) :
              uploadedFiles[j].id # procs[p].fileId
        /\ Len(uploadedFiles) = 1

====
